---- MODULE Spec2Model ----
(***************************************************************************)
(* Model of src/main.py: the scraper of the epidemiological bulletins     *)
(* page (get_pdf_links), the download strategy factory and the Google     *)
(* Drive strategy, the DownloadLogger observer, download_pdfs and main.   *)
(*                                                                         *)
(* Python strings that the program inspects (links, names, paths) are     *)
(* sequences of one-character strings, so that `in`, str.split and        *)
(* os.path.join are computed character by character.  The page is the     *)
(* DOM that BeautifulSoup(response.text, 'html.parser') hands to the      *)
(* program: a sequence of nodes in document order, each naming its        *)
(* parent (0 is the soup itself).                                          *)
(***************************************************************************)
EXTENDS Integers, Sequences, FiniteSets, TLC

VARIABLES
    pc,         \* position of the single thread of control
    page,       \* the DOM served at the bulletin URL (environment)
    response,   \* outcome of requests.get + raise_for_status in this run
    links,      \* the list returned by get_pdf_links
    k,          \* 1-based position of `for name, link in links`
    strategy,   \* local `strategy` of download_pdfs
    status,     \* local `status` of download_pdfs
    results,    \* DownloadLogger.results
    factory,    \* DownloadStrategyFactory._instance
    fs,         \* files on disk: path -> content
    dirs,       \* directories on disk
    out,        \* what was printed to standard output
    requested,  \* URLs handed to gdown.download; URLs fetched by requests.get
    run,        \* number of the current invocation of main()
    hist        \* history of the runs (observation only)

vars == <<pc, page, response, links, k, strategy, status, results, factory,
          fs, dirs, out, requested, run, hist>>

----------------------------------------------------------------------------
(* Bounds of the model.                                                    *)

MaxRows == 2
MaxRowsTwice == 2
MaxRuns == 2
MaxNodes == 7
MaxLinkLen == 6
MaxUpdates == 2

----------------------------------------------------------------------------
(* Program constants, as character sequences.                              *)

\* "drive.google.com", the only key of _strategies
DRIVE_SOURCE == <<"d","r","i","v","e",".","g","o","o","g","l","e",".","c","o","m">>

\* "https://drive.google.com/uc?id=", the prefix of download_url
UC_PREFIX ==
    <<"h","t","t","p","s",":","/","/","d","r","i","v","e",".","g","o","o","g",
      "l","e",".","c","o","m","/","u","c","?","i","d","=">>

\* ".pdf"
PDF_SUFFIX == <<".","p","d","f">>

\* default value of download_pdfs' parameter folder: "pdfs"
FOLDER == <<"p","d","f","s">>

\* "descargas_resultados.csv"
CSV_NAME ==
    <<"d","e","s","c","a","r","g","a","s","_","r","e","s","u","l","t","a","d",
      "o","s",".","c","s","v">>

\* the url of main(), kept as one token: the program never inspects it
PAGE_URL == "https://secretariadesalud.chubut.gov.ar/epidemiological_releases"

EXITOSO == "Exitoso"
FALLIDO == "Fallido"
NO_SOPORTADO == "No soportado"

None == "None"

----------------------------------------------------------------------------
(* Python string operations.                                               *)

\* s.find(sub, from): least 1-based index >= from where sub occurs, 0 if none
Find(s, sub, from) ==
    LET hits == { i \in from..(Len(s) - Len(sub) + 1) : SubSeq(s, i, i + Len(sub) - 1) = sub }
    IN  IF hits = {} THEN 0 ELSE CHOOSE i \in hits : \A j \in hits : i <= j

\* sub in s
Contains(sub, s) == Find(s, sub, 1) # 0

\* s.split(sep): the pieces between the non-overlapping occurrences of sep,
\* scanned left to right; always at least one piece.  (t is s, evaluated once.)
RECURSIVE Split(_, _)
Split(s, sep) ==
    CHOOSE pieces \in
        { LET i == Find(t, sep, 1)
          IN  IF i = 0 THEN <<t>>
              ELSE <<SubSeq(t, 1, i - 1)>> \o Split(SubSeq(t, i + Len(sep), Len(t)), sep)
          : t \in {s} } : TRUE

\* s.strip() for the blank character
RECURSIVE Strip(_)
Strip(s) ==
    IF s = <<>> THEN s
    ELSE IF Head(s) = " " THEN Strip(Tail(s))
    ELSE IF s[Len(s)] = " " THEN Strip(SubSeq(s, 1, Len(s) - 1))
    ELSE s

\* os.path.join(a, b) on POSIX: an absolute b discards a
os_path_join(a, b) ==
    IF b # <<>> /\ b[1] = "/" THEN b
    ELSE IF a = <<>> \/ a[Len(a)] = "/" THEN a \o b
    ELSE a \o <<"/">> \o b

\* os.path.dirname(p): the head before the last "/", its trailing slashes
\* removed unless it is made of slashes only
RECURSIVE LastSlash(_, _)
LastSlash(p, i) ==
    IF i = 0 THEN 0 ELSE IF p[i] = "/" THEN i ELSE LastSlash(p, i - 1)

RECURSIVE RStripSlash(_)
RStripSlash(h) ==
    IF h # <<>> /\ h[Len(h)] = "/" THEN RStripSlash(SubSeq(h, 1, Len(h) - 1)) ELSE h

dirname(p) ==
    LET head == SubSeq(p, 1, LastSlash(p, Len(p)))
    IN  IF RStripSlash(head) = <<>> THEN head ELSE RStripSlash(head)

----------------------------------------------------------------------------
(* The DOM and the BeautifulSoup calls the program makes.                  *)
(* A node is [tag, parent, has_href, href, text]: tag is an element name   *)
(* or "#text", has_href tells whether the href attribute is present, href  *)
(* is its value, text is the string of a "#text" node.                     *)

Element(tag, parent) ==
    [tag |-> tag, parent |-> parent, has_href |-> FALSE, href |-> <<>>, text |-> <<>>]
Anchor(parent, href) ==
    [tag |-> "a", parent |-> parent, has_href |-> TRUE, href |-> href, text |-> <<>>]
Text(parent, str) ==
    [tag |-> "#text", parent |-> parent, has_href |-> FALSE, href |-> <<>>, text |-> str]

\* node i lies below node r (r = 0: the soup)
RECURSIVE IsDescendant(_, _, _)
IsDescendant(doc, i, r) ==
    IF i = 0 THEN FALSE
    ELSE doc[i].parent = r \/ IsDescendant(doc, doc[i].parent, r)

\* the positions of the document, in document order
Positions(doc) == [i \in 1..Len(doc) |-> i]

\* r.find_all(tag): every descendant with that tag, in document order
\* (recursive=True is the default)
find_all(doc, r, tag) ==
    SelectSeq(Positions(doc), LAMBDA i : doc[i].tag = tag /\ IsDescendant(doc, i, r))

\* r.find('a', href=True): the first descendant <a> that has an href; 0 if none
find_a_href(doc, r) ==
    LET hits == SelectSeq(Positions(doc),
                          LAMBDA i : /\ doc[i].tag = "a"
                                     /\ doc[i].has_href
                                     /\ IsDescendant(doc, i, r))
    IN  IF hits = <<>> THEN 0 ELSE hits[1]

\* r.get_text(strip=True): the stripped strings below r, the empty ones
\* dropped, joined with nothing between them
RECURSIVE JoinText(_, _)
JoinText(doc, ix) ==
    IF ix = <<>> THEN <<>>
    ELSE Strip(doc[Head(ix)].text) \o JoinText(doc, Tail(ix))

get_text(doc, r) == JoinText(doc, find_all(doc, r, "#text"))

----------------------------------------------------------------------------
(* get_pdf_links                                                           *)

\* the body of `for tr in soup.find_all('tr')` for one tr, appended to links
ScanRow(doc, tr, acc) ==
    LET tds == find_all(doc, tr, "td")
    IN  IF Len(tds) > 2
        THEN LET name == get_text(doc, tds[1])
                 a_tag == find_a_href(doc, tds[3])
             IN  IF a_tag # 0 THEN Append(acc, <<name, doc[a_tag].href>>) ELSE acc
        ELSE acc

RECURSIVE ScanRows(_, _, _)
ScanRows(doc, trs, acc) ==
    IF trs = <<>> THEN acc
    ELSE ScanRows(doc, Tail(trs), ScanRow(doc, Head(trs), acc))

\* lines 82-93: the links of a page that was fetched
parse_links(doc) == ScanRows(doc, find_all(doc, 0, "tr"), <<>>)

\* `except requests.RequestException`: the transport errors and the HTTPError
\* that raise_for_status raises are all subclasses of it
IsRequestException(resp) == resp \in {"ConnectionError", "Timeout", "HTTPError"}

\* what the environment can answer to requests.get(url, timeout=10) followed
\* by raise_for_status()
FetchOutcomes == {"ok", "ConnectionError", "Timeout", "HTTPError"}

----------------------------------------------------------------------------
(* DownloadLogger                                                          *)

\* a logger whose list outlives the call that made it
DownloadLogger_kept == results

\* __init__: self.results = []
DownloadLogger_init == <<>>

\* a logger that puts the newest record first
update_prepend(rs, name, st) == <<[Nombre |-> name, Estado |-> st]>> \o rs

\* update: self.results.append({"Nombre": name, "Estado": status})
update(rs, name, st) == Append(rs, [Nombre |-> name, Estado |-> st])

\* pd.DataFrame(self.results): the columns are the keys of the dicts, in the
\* order they first appear; an empty list gives a frame with no columns
DataFrame(rs) ==
    [columns |-> IF rs = <<>> THEN <<>> ELSE <<"Nombre", "Estado">>,
     data    |-> [i \in 1..Len(rs) |-> <<rs[i].Nombre, rs[i].Estado>>]]

\* df.to_csv(path, index=False): a header line with the columns, then one
\* line per row; the file is opened for writing, an existing one is replaced
to_csv(df) == [kind |-> "csv", url |-> <<>>, header |-> df.columns, rows |-> df.data]

\* the file gdown writes: the bytes served at the URL, identified by the URL
PdfFile(url) == [kind |-> "pdf", url |-> url, header |-> <<>>, rows |-> <<>>]

\* the file system with `path` (re)written
WriteFile(files, path, content) ==
    [q \in DOMAIN files \cup {path} |-> IF q = path THEN content ELSE files[q]]

\* csv_path of save_to_csv
csv_path(folder) == os_path_join(folder, CSV_NAME)

\* save_to_csv: the files afterwards
save_to_csv(rs, folder, files) == WriteFile(files, csv_path(folder), to_csv(DataFrame(rs)))

----------------------------------------------------------------------------
(* DownloadStrategyFactory                                                 *)

NoFactory == [instance |-> FALSE, strategies |-> <<>>]

\* __new__: the instance is created, with its _strategies, only the first time
DownloadStrategyFactory_new(f) ==
    IF ~f.instance
    THEN [instance |-> TRUE,
          strategies |-> << [source |-> DRIVE_SOURCE, strategy |-> "GoogleDriveDownloader"] >>]
    ELSE f

\* the scan of get_strategy over _strategies.items(), in insertion order
RECURSIVE ScanStrategies(_, _)
ScanStrategies(items, link) ==
    IF items = <<>> THEN None
    ELSE IF Contains(Head(items).source, link) THEN Head(items).strategy
    ELSE ScanStrategies(Tail(items), link)

\* a factory that hands out its first strategy whatever the link
get_strategy_any(f, link) == IF f.strategies = <<>> THEN None ELSE f.strategies[1].strategy

get_strategy(f, link) == ScanStrategies(f.strategies, link)

----------------------------------------------------------------------------
(* GoogleDriveDownloader                                                   *)

\* link.split("/d/")[1] raises IndexError when the link holds no "/d/"
HasIdSegment(link) == Len(Split(link, <<"/", "d", "/">>)) >= 2

\* an identifier that keeps what follows it in the link
file_id_uncut(link) == Split(link, <<"/", "d", "/">>)[2]

\* file_id = link.split("/d/")[1].split("/")[0]
file_id(link) ==
    CHOOSE id \in { Split(rest, <<"/">>)[1] : rest \in { Split(link, <<"/", "d", "/">>)[2] } } : TRUE

\* download_url = f"https://drive.google.com/uc?id={file_id}"
download_url(link) == UC_PREFIX \o file_id(link)

\* an output path that leaves the suffix out
output_path_bare(name, folder) == os_path_join(folder, name)

\* output = os.path.join(folder, f"{name}.pdf")
output_path(name, folder) == os_path_join(folder, name \o PDF_SUFFIX)

\* what the environment can make of one gdown.download call
TransferOutcomes == {"ok", "error"}

\* gdown.download(download_url, output): it raises when the transfer fails or
\* when the file cannot be created in the directory of output
gdown_raises(output, transfer, ds) == transfer = "error" \/ dirname(output) \notin ds

\* a handler that catches the failures of the transfer only
Caught_transfer_only(exc) == exc = "TransferError"

\* `except Exception` of download: which failures of the try block are caught
Caught(exc) == exc \in {"IndexError", "TransferError"}

\* download(name, link, folder) under the environment's answer `transfer`:
\* the returned status, whether an exception escaped, the environment's
\* answer when gdown was called, the files and the output afterwards, and the
\* URL given to gdown (none when it is not called); exc is the exception
\* raised in the try block, None when there is none
download(name, link, folder, transfer, files, ds) ==
    CHOOSE r \in
      { [status   |-> IF exc = None THEN EXITOSO
                      ELSE IF Caught(exc) THEN FALLIDO ELSE None,
         escaped  |-> exc # None /\ ~Caught(exc),
         transfer |-> IF exc = "IndexError" THEN "not called" ELSE transfer,
         files    |-> IF exc = None
                      THEN WriteFile(files, output_path(name, folder),
                                     PdfFile(download_url(link)))
                      ELSE files,
         out      |-> IF exc = "IndexError" THEN <<"Error al descargar">>
                      ELSE IF exc = None THEN <<"Inicio de la descarga", "Fin de la descarga">>
                      ELSE <<"Inicio de la descarga", "Error al descargar">>,
         urls     |-> IF exc = "IndexError" THEN <<>> ELSE <<download_url(link)>>]
        : exc \in { IF ~HasIdSegment(link) THEN "IndexError"
                    ELSE IF gdown_raises(output_path(name, folder), transfer, ds)
                         THEN "TransferError"
                    ELSE None } } : TRUE

----------------------------------------------------------------------------
(* The pages the environment serves: a table whose rows are drawn from    *)
(* RowKinds.  A row is a <tr> with a first cell holding the name, an      *)
(* empty second cell and, when it has one, a third cell holding an <a>.   *)

HTTPS == <<"h","t","t","p","s",":","/","/">>

\* https://drive.google.com/file/d/ABC123/view
LinkABC ==
    HTTPS \o DRIVE_SOURCE \o
    <<"/","f","i","l","e","/","d","/","A","B","C","1","2","3","/","v","i","e","w">>

\* https://drive.google.com/file/d/XYZ/view
LinkXYZ ==
    HTTPS \o DRIVE_SOURCE \o <<"/","f","i","l","e","/","d","/","X","Y","Z","/","v","i","e","w">>

\* https://drive.google.com/open?id=Q : a Drive link with no /d/ segment
LinkOpen == HTTPS \o DRIVE_SOURCE \o <<"/","o","p","e","n","?","i","d","=","Q">>

\* https://example.com/file.pdf
LinkOther ==
    HTTPS \o <<"e","x","a","m","p","l","e",".","c","o","m","/","f","i","l","e",".","p","d","f">>

RowKinds ==
    { [cells |-> 3, name |-> <<" ","B","1"," ">>, has_href |-> TRUE,  href |-> LinkABC],
      [cells |-> 3, name |-> <<"B","1">>,         has_href |-> TRUE,  href |-> LinkXYZ],
      [cells |-> 3, name |-> <<"B","2">>,         has_href |-> TRUE,  href |-> LinkOpen],
      [cells |-> 3, name |-> <<"B","3">>,         has_href |-> TRUE,  href |-> LinkOther],
      [cells |-> 2, name |-> <<"B","4">>,         has_href |-> TRUE,  href |-> LinkABC],
      [cells |-> 3, name |-> <<"B","5">>,         has_href |-> FALSE, href |-> <<>>],
      [cells |-> 3, name |-> <<"/","B">>,         has_href |-> TRUE,  href |-> LinkABC],
      [cells |-> 3, name |-> <<"x","/","B">>,     has_href |-> TRUE,  href |-> LinkXYZ] }

\* the nodes of one row placed after `base` nodes, below the table (node 1)
RowNodes(base, row) ==
    LET a == [tag |-> "a", parent |-> base + row.cells + 2, has_href |-> row.has_href,
              href |-> row.href, text |-> <<>>]
    IN  << Element("tr", 1), Element("td", base + 1), Text(base + 2, row.name),
           Element("td", base + 1) >>
        \o (IF row.cells = 3 THEN << Element("td", base + 1) >> ELSE <<>>)
        \o << a >>

RECURSIVE AppendRows(_, _)
AppendRows(doc, rows) ==
    IF rows = <<>> THEN doc
    ELSE AppendRows(doc \o RowNodes(Len(doc), Head(rows)), Tail(rows))

PageOf(rows) == AppendRows(<< Element("table", 0) >>, rows)

PagesUpTo(n) == { PageOf(rows) : rows \in UNION { [1..m -> RowKinds] : m \in 0..n } }

----------------------------------------------------------------------------
(* The program: main() and download_pdfs().                                *)

NoHistory == [fetches |-> 0, flushes |-> 0, steps |-> <<>>, transfers |-> <<>>, prev |-> <<>>]

Start(pages) ==
    /\ pc = "main"
    /\ page \in pages
    /\ response = None
    /\ links = <<>>
    /\ k = 0
    /\ strategy = None
    /\ status = None
    /\ results = <<>>
    /\ factory = NoFactory
    /\ fs = <<>>
    /\ dirs = { <<>>, <<"/">> }
    /\ out = <<>>
    /\ requested = <<>>
    /\ run = 1
    /\ hist = NoHistory

Init == Start(PagesUpTo(MaxRows))

Noted(kk, step) == [hist EXCEPT !.steps = Append(@, <<kk, step>>)]

\* main, line 115, into get_pdf_links, lines 75-80: the page is requested;
\* a RequestException is reported and the function returns []
Fetch(r) ==
    /\ pc = "main"
    /\ response' = r
    /\ hist' = [hist EXCEPT !.fetches = @ + 1]
    /\ IF IsRequestException(r)
       THEN /\ out' = Append(out, "Error al acceder a la pagina")
            /\ links' = <<>>
            /\ pc' = "check"
       ELSE IF r = "ok"
       THEN /\ pc' = "parse"
            /\ UNCHANGED <<out, links>>
       ELSE /\ pc' = "crashed"
            /\ UNCHANGED <<out, links>>
    /\ UNCHANGED <<page, k, strategy, status, results, factory, fs, dirs, requested, run>>

\* get_pdf_links, lines 82-93
Parse ==
    /\ pc = "parse"
    /\ links' = parse_links(page)
    /\ pc' = "check"
    /\ UNCHANGED <<page, response, k, strategy, status, results, factory, fs, dirs,
                   out, requested, run, hist>>

\* a main that starts the downloads whatever the list
has_links_always(ls) == TRUE

\* `if not links` of main: whether the downloads are started
has_links(ls) == ls # <<>>

\* main, lines 117-121
CheckLinks ==
    /\ pc = "check"
    /\ IF has_links(links)
       THEN /\ pc' = "setup"
            /\ out' = out
       ELSE /\ pc' = "empty_done"
            /\ out' = Append(out, "No se encontraron enlaces de descarga.")
    /\ UNCHANGED <<page, response, links, k, strategy, status, results, factory, fs,
                   dirs, requested, run, hist>>

\* a loop that leaves its last entry out
AfterEntry_early(n, ls) == IF n + 1 < Len(ls) THEN "resolve" ELSE "flush"

\* the position after entry n of the loop of download_pdfs
AfterEntry(n, ls) == IF n < Len(ls) THEN "resolve" ELSE "flush"

\* download_pdfs, lines 97-99, up to the head of the loop
Setup ==
    /\ pc = "setup"
    /\ dirs' = dirs \cup {FOLDER}
    /\ factory' = DownloadStrategyFactory_new(factory)
    /\ results' = DownloadLogger_init
    /\ k' = 1
    /\ pc' = AfterEntry(0, links)
    /\ UNCHANGED <<page, response, links, strategy, status, fs, out, requested, run, hist>>

\* lines 102-104
Resolve ==
    /\ pc = "resolve"
    /\ strategy' = get_strategy(factory, links[k][2])
    /\ status' = NO_SOPORTADO
    /\ pc' = IF strategy' # None THEN "download" ELSE "record"
    /\ hist' = Noted(k, "resolve")
    /\ UNCHANGED <<page, response, links, k, results, factory, fs, dirs, out, requested, run>>

\* line 105
Download(transfer) ==
    /\ pc = "download"
    /\ \E r \in { download(links[k][1], links[k][2], FOLDER, transfer, fs, dirs) } :
           /\ status' = r.status
           /\ fs' = r.files
           /\ out' = out \o r.out
           /\ requested' = requested \o r.urls
           /\ pc' = IF r.escaped THEN "crashed" ELSE "record"
           /\ hist' = [Noted(k, "download") EXCEPT !.transfers = Append(@, r.transfer)]
    /\ UNCHANGED <<page, response, links, k, strategy, results, factory, dirs, run>>

\* line 107
Record ==
    /\ pc = "record"
    /\ results' = update(results, links[k][1], status)
    /\ pc' = "sleep"
    /\ hist' = [Noted(k, "record") EXCEPT
                  !.transfers = IF strategy = None THEN Append(@, "not called") ELSE @]
    /\ UNCHANGED <<page, response, links, k, strategy, status, factory, fs, dirs, out,
                   requested, run>>

\* line 108, and the loop moves on
Sleep ==
    /\ pc = "sleep"
    /\ k' = k + 1
    /\ pc' = AfterEntry(k, links)
    /\ hist' = Noted(k, "sleep")
    /\ UNCHANGED <<page, response, links, strategy, status, results, factory, fs, dirs,
                   out, requested, run>>

\* line 110: logger.save_to_csv(folder); to_csv raises when the folder is missing
Flush ==
    /\ pc = "flush"
    /\ IF dirname(csv_path(FOLDER)) \in dirs
       THEN /\ fs' = save_to_csv(results, FOLDER, fs)
            /\ out' = Append(out, "Resultados guardados")
            /\ pc' = "report"
       ELSE /\ pc' = "crashed"
            /\ UNCHANGED <<fs, out>>
    /\ hist' = [hist EXCEPT !.flushes = @ + 1]
    /\ UNCHANGED <<page, response, links, k, strategy, status, results, factory, dirs,
                   requested, run>>

\* main, line 122
Report ==
    /\ pc = "report"
    /\ out' = Append(out, "Descarga completada.")
    /\ pc' = "done"
    /\ UNCHANGED <<page, response, links, k, strategy, status, results, factory, fs,
                   dirs, requested, run, hist>>

Next ==
    \/ \E r \in FetchOutcomes : Fetch(r)
    \/ Parse
    \/ CheckLinks
    \/ Setup
    \/ Resolve
    \/ \E t \in TransferOutcomes : Download(t)
    \/ Record
    \/ Sleep
    \/ Flush
    \/ Report

Spec == Init /\ [][Next]_vars

\* the program is one thread that runs to its end: no step is postponed forever
LiveSpec == Spec /\ WF_vars(Next)

----------------------------------------------------------------------------
(* main() invoked again in the same process, on the same page: the files  *)
(* and the singleton stay, every local is assigned anew before it is read. *)

InitTwice == Start(PagesUpTo(MaxRowsTwice))

Snapshot ==
    [response |-> response, transfers |-> hist.transfers, files |-> fs, links |-> links]

Rerun ==
    /\ pc \in {"done", "empty_done"}
    /\ run < MaxRuns
    /\ run' = run + 1
    /\ pc' = "main"
    /\ out' = <<>>
    /\ hist' = [NoHistory EXCEPT !.prev = Append(hist.prev, Snapshot)]
    /\ UNCHANGED <<page, response, links, k, strategy, status, results, factory, fs,
                   dirs, requested>>

NextTwice == Next \/ Rerun

SpecTwice == InitTwice /\ [][NextTwice]_vars

----------------------------------------------------------------------------
(* GoogleDriveDownloader.download called on its own, on every link over a  *)
(* small alphabet and on names with and without a "/".                      *)

LinkAlphabet == {"/", "d", "x"}

StringsUpTo(n) == UNION { [1..m -> LinkAlphabet] : m \in 0..n }

CallNames == { <<"B">>, <<"/", "B">>, <<"x", "/", "B">> }

InitDownload ==
    /\ pc = "call"
    /\ page = <<>>
    /\ response = None
    /\ links \in { << <<n, l>> >> : n \in CallNames, l \in StringsUpTo(MaxLinkLen) }
    /\ k = 1
    /\ strategy = "GoogleDriveDownloader"
    /\ status = None
    /\ results = <<>>
    /\ factory = NoFactory
    /\ fs = <<>>
    /\ dirs = { <<>>, <<"/">>, FOLDER }
    /\ out = <<>>
    /\ requested = <<>>
    /\ run = 1
    /\ hist = NoHistory

CallDownload(transfer) ==
    /\ pc = "call"
    /\ \E r \in { download(links[k][1], links[k][2], FOLDER, transfer, fs, dirs) } :
           /\ status' = r.status
           /\ fs' = r.files
           /\ out' = out \o r.out
           /\ requested' = requested \o r.urls
           /\ pc' = IF r.escaped THEN "crashed" ELSE "returned"
           /\ hist' = [hist EXCEPT !.transfers = Append(@, r.transfer)]
    /\ UNCHANGED <<page, response, links, k, strategy, results, factory, dirs, run>>

NextDownload == \E t \in TransferOutcomes : CallDownload(t)

SpecDownload == InitDownload /\ [][NextDownload]_vars

----------------------------------------------------------------------------
(* DownloadLogger used on its own: any number of update calls, with any   *)
(* name and any status, then save_to_csv.                                  *)

LoggerNames == { <<>>, <<"B", "1">> }
LoggerStatuses == { EXITOSO, FALLIDO, NO_SOPORTADO, "" }

InitLogger ==
    /\ pc = "logger"
    /\ page = <<>>
    /\ response = None
    /\ links = <<>>
    /\ k = 0
    /\ strategy = None
    /\ status = None
    /\ results = DownloadLogger_init
    /\ factory = NoFactory
    /\ fs = <<>>
    /\ dirs = { <<>>, <<"/">>, FOLDER }
    /\ out = <<>>
    /\ requested = <<>>
    /\ run = 1
    /\ hist = NoHistory

\* one call logger.update(name, st); hist.steps keeps the calls made
LoggerUpdate(name, st) ==
    /\ pc = "logger"
    /\ Len(results) < MaxUpdates
    /\ results' = update(results, name, st)
    /\ hist' = [hist EXCEPT !.steps = Append(@, <<name, st>>)]
    /\ UNCHANGED <<pc, page, response, links, k, strategy, status, factory, fs, dirs,
                   out, requested, run>>

\* one call logger.save_to_csv(folder)
LoggerSave ==
    /\ pc = "logger"
    /\ fs' = save_to_csv(results, FOLDER, fs)
    /\ out' = Append(out, "Resultados guardados")
    /\ pc' = "saved"
    /\ hist' = [hist EXCEPT !.flushes = @ + 1]
    /\ UNCHANGED <<page, response, links, k, strategy, status, results, factory, dirs,
                   requested, run>>

NextLogger ==
    \/ \E n \in LoggerNames, st \in LoggerStatuses : LoggerUpdate(n, st)
    \/ LoggerSave

SpecLogger == InitLogger /\ [][NextLogger]_vars

----------------------------------------------------------------------------
(* get_pdf_links on every page of at most MaxNodes nodes built from        *)
(* tables, rows, cells, anchors and strings, tables nested in cells        *)
(* included.  The environment writes the page node by node, in document    *)
(* order; the program then scans it.                                        *)

\* the tags a node may have below a parent of tag `ptag` ("" is the soup)
ChildTags(ptag) ==
    CASE ptag = ""      -> {"table", "tr"}
      [] ptag = "table" -> {"tr"}
      [] ptag = "tr"    -> {"td"}
      [] ptag = "td"    -> {"a", "#text", "table"}
      [] OTHER          -> {}

TagOf(doc, i) == IF i = 0 THEN "" ELSE doc[i].tag

\* the nodes a next node can be a child of: the last node and what is above it
OpenNodes(doc) ==
    {0} \cup { i \in 1..Len(doc) : i = Len(doc) \/ IsDescendant(doc, Len(doc), i) }

HtmlHref == <<"u">>
HtmlText == <<"B">>

NodesBelow(doc, parent) ==
    LET tags == ChildTags(TagOf(doc, parent))
    IN  { Element(t, parent) : t \in tags \ {"#text"} }
        \cup (IF "a" \in tags THEN { Anchor(parent, HtmlHref) } ELSE {})
        \cup (IF "#text" \in tags THEN { Text(parent, HtmlText) } ELSE {})

InitHtml ==
    /\ pc = "build"
    /\ page = <<>>
    /\ response = None
    /\ links = <<>>
    /\ k = 0
    /\ strategy = None
    /\ status = None
    /\ results = <<>>
    /\ factory = NoFactory
    /\ fs = <<>>
    /\ dirs = { <<>>, <<"/">> }
    /\ out = <<>>
    /\ requested = <<>>
    /\ run = 1
    /\ hist = NoHistory

\* the environment writes one more node of the page
WriteNode ==
    /\ pc = "build"
    /\ Len(page) < MaxNodes
    /\ \E parent \in OpenNodes(page) : \E node \in NodesBelow(page, parent) :
          page' = Append(page, node)
    /\ UNCHANGED <<pc, response, links, k, strategy, status, results, factory, fs, dirs,
                   out, requested, run, hist>>

\* get_pdf_links on the page as it stands, the request having succeeded
ExtractLinks ==
    /\ pc = "build"
    /\ response' = "ok"
    /\ links' = parse_links(page)
    /\ pc' = "extracted"
    /\ UNCHANGED <<page, k, strategy, status, results, factory, fs, dirs, out,
                   requested, run, hist>>

NextHtml == WriteNode \/ ExtractLinks

SpecHtml == InitHtml /\ [][NextHtml]_vars

----------------------------------------------------------------------------
(* What the claims speak of.                                               *)

Range(f) == { f[i] : i \in DOMAIN f }

EntryName(i) == links[i][1]
EntryLink(i) == links[i][2]

\* save_to_csv has returned
Flushed == pc \in {"report", "done"}

CsvWritten == csv_path(FOLDER) \in DOMAIN fs
CsvRows == fs[csv_path(FOLDER)].rows
CsvHeader == fs[csv_path(FOLDER)].header

PdfPaths == { q \in DOMAIN fs : fs[q].kind = "pdf" }

\* the link holds the registered host substring
IsDriveLink(link) ==
    \E i \in 1..(Len(link) - Len(DRIVE_SOURCE) + 1) :
        SubSeq(link, i, i + Len(DRIVE_SOURCE) - 1) = DRIVE_SOURCE

\* the positions at which "/d/" starts in the link
IdMarks(link) == { i \in 1..(Len(link) - 2) : SubSeq(link, i, i + 2) = <<"/", "d", "/">> }

\* the file of entry i could be created and the environment served its bytes
TransferSucceeded(i) ==
    /\ hist.transfers[i] = "ok"
    /\ \/ Head(EntryName(i) \o <<"?">>) = "/" /\ "/" \notin Range(Tail(EntryName(i)))
       \/ "/" \notin Range(EntryName(i))

\* the status entry i is to be given: from its link and the environment alone
ExpectedStatus(i) ==
    IF ~IsDriveLink(EntryLink(i)) THEN NO_SOPORTADO
    ELSE IF IdMarks(EntryLink(i)) # {} /\ TransferSucceeded(i) THEN EXITOSO
    ELSE FALLIDO

\* where the PDF of an entry called `name` is to be found
ExpectedPdfPath(name) ==
    IF name # <<>> /\ name[1] = "/" THEN name \o <<".", "p", "d", "f">>
    ELSE <<"p", "d", "f", "s", "/">> \o name \o <<".", "p", "d", "f">>

----------------------------------------------------------------------------
\* C1: once the logger is flushed the CSV holds exactly one row per extracted
\* entry, row i carrying the name of entry i and the status produced for entry
\* i, in extraction order; no outcome of an entry ends the run before the
\* entries after it are dispatched and recorded.
C1_OneResultPerEntry ==
    /\ pc # "crashed"
    /\ Flushed =>
         /\ CsvWritten
         /\ Len(hist.transfers) = Len(links)
         /\ Len(CsvRows) = Len(links)
         /\ \A i \in 1..Len(links) : CsvRows[i] = <<EntryName(i), ExpectedStatus(i)>>

\* a Drive link whose transfer fails, then a Drive link that succeeds: the rows
\* are "Fallido" then "Exitoso"
C1_FailThenSucceed ==
    /\ pc = "done"
    /\ Len(links) = 2
    /\ hist.transfers = <<"error", "ok">>
    /\ CsvRows[1][2] = FALLIDO
    /\ CsvRows[2][2] = EXITOSO

----------------------------------------------------------------------------
\* C2: for a link that holds none of the registered host substrings no
\* strategy is resolved, download is never invoked and no file is written for
\* it, the status recorded is "No soportado", and it still has its one row.
C2_UnsupportedLink ==
    /\ \A i \in 1..Len(links) :
         ~IsDriveLink(EntryLink(i)) =>
            /\ <<i, "download">> \notin Range(hist.steps)
            /\ (pc \in {"record", "sleep"} /\ k = i) =>
                  (strategy = None /\ status = NO_SOPORTADO)
            /\ i <= Len(results) =>
                  results[i] = [Nombre |-> EntryName(i), Estado |-> NO_SOPORTADO]
            /\ Flushed =>
                  (Len(CsvRows) = Len(links) /\ CsvRows[i] = <<EntryName(i), NO_SOPORTADO>>)
    /\ \A q \in PdfPaths :
         \E j \in 1..Len(links) : IsDriveLink(EntryLink(j)) /\ q = ExpectedPdfPath(EntryName(j))
    /\ Len(requested) = Cardinality({ st \in Range(hist.steps) :
                                        st[2] = "download" /\ IdMarks(EntryLink(st[1])) # {} })

\* one row whose link is https://example.com/file.pdf: one CSV row, no PDF
C2_OneUnsupportedRow ==
    /\ pc = "done"
    /\ links = << <<<<"B", "3">>, LinkOther>> >>
    /\ CsvRows = << <<<<"B", "3">>, NO_SOPORTADO>> >>
    /\ DOMAIN fs = { csv_path(FOLDER) }

----------------------------------------------------------------------------
\* C4: a failed page fetch (transport error or error HTTP status) makes
\* get_pdf_links return the empty list, and on an empty list the run reports
\* that no links were found and ends normally: nothing dispatched, nothing
\* recorded, no folder, no PDF and no CSV written.
C4_EmptyRunWritesNothing ==
    /\ (pc # "main" /\ IsRequestException(response)) =>
          (links = <<>> /\ pc \in {"check", "empty_done"})
    /\ (links = <<>> /\ pc \notin {"main", "parse", "check"}) => pc = "empty_done"
    /\ pc = "empty_done" =>
          /\ links = <<>>
          /\ out[Len(out)] = "No se encontraron enlaces de descarga."
          /\ hist.steps = <<>>
          /\ hist.flushes = 0
          /\ requested = <<>>
          /\ results = <<>>
          /\ fs = <<>>
          /\ FOLDER \notin dirs

\* the page fetch answered with an error status and the run has ended
C4_FetchFailedRunEnded ==
    /\ pc = "empty_done"
    /\ response = "HTTPError"
    /\ out = <<"Error al acceder a la pagina", "No se encontraron enlaces de descarga.">>

----------------------------------------------------------------------------
\* the entries recorded as "Exitoso"
Successful == { i \in 1..Len(links) : i <= Len(results) /\ results[i].Estado = EXITOSO }

\* C5 (as claimed): after a run there is one <name>.pdf per entry recorded as
\* "Exitoso": as many PDF files as successful entries, each under the name of
\* its entry, also when two entries share a name.
C5_OnePdfPerSuccessfulEntry ==
    pc = "done" =>
       /\ \A i \in Successful : ExpectedPdfPath(EntryName(i)) \in PdfPaths
       /\ Cardinality(PdfPaths) = Cardinality(Successful)

\* C5 (amended): after a run the PDF files are exactly the files
\* os.path.join(folder, name + ".pdf") of the entries recorded as "Exitoso",
\* one per distinct name among them; a file holds the download of the last
\* successful entry of its name.
C5_OnePdfPerSuccessfulName ==
    pc = "done" =>
       /\ PdfPaths = { ExpectedPdfPath(EntryName(i)) : i \in Successful }
       /\ Cardinality(PdfPaths) = Cardinality({ EntryName(i) : i \in Successful })
       /\ \A i \in Successful :
            (\A j \in Successful : EntryName(j) = EntryName(i) => j <= i) =>
               fs[ExpectedPdfPath(EntryName(i))].url
                  = UC_PREFIX \o Split(Split(EntryLink(i), <<"/", "d", "/">>)[2], <<"/">>)[1]

\* two successful entries that share the name B1, and one PDF
C5_SharedNameOneFile ==
    /\ pc = "done"
    /\ Successful = {1, 2}
    /\ EntryName(1) = EntryName(2)
    /\ EntryLink(1) # EntryLink(2)
    /\ Cardinality(PdfPaths) = 1

----------------------------------------------------------------------------
\* C3: download lets no failure escape: a link without a "/d/" segment and a
\* transfer or file write that fails both end in the returned status
\* "Fallido"; the returned status is "Exitoso" exactly when the transfer
\* completed, and then the file is there.
C3_DownloadCatchesEveryFailure ==
    /\ pc # "crashed"
    /\ pc = "returned" =>
         /\ status \in {EXITOSO, FALLIDO}
         /\ status = EXITOSO <=> (IdMarks(EntryLink(1)) # {} /\ TransferSucceeded(1))
         /\ status = EXITOSO => PdfPaths = { ExpectedPdfPath(EntryName(1)) }
         /\ status = FALLIDO => fs = <<>>
         /\ IdMarks(EntryLink(1)) = {} => (status = FALLIDO /\ requested = <<>>)

\* a link with no "/d/" in it was given, and the call returned "Fallido"
C3_ExtractionFailureCaught ==
    /\ pc = "returned"
    /\ EntryLink(1) = <<"x", "/", "d">>
    /\ status = FALLIDO
    /\ out = <<"Error al descargar">>

----------------------------------------------------------------------------
\* the first position at which "/d/" starts
FirstMark(link) == CHOOSE i \in IdMarks(link) : \A j \in IdMarks(link) : i <= j

\* the positions of the "/" that follow the first "/d/"
ClosingSlashes(link) == { j \in (FirstMark(link) + 3)..Len(link) : link[j] = "/" }

\* the link holds a segment /d/<id>/
HasClosedIdSegment(link) == IdMarks(link) # {} /\ ClosingSlashes(link) # {}

\* the path component between "/d/" and the next "/"
SegmentAfterD(link) ==
    SubSeq(link, FirstMark(link) + 3,
           (CHOOSE j \in ClosingSlashes(link) : \A m \in ClosingSlashes(link) : j <= m) - 1)

\* C9: for a link with a segment /d/<id>/ the identifier that download derives
\* is the path component that follows "/d/" and ends at the next "/", and the
\* URL handed to gdown is https://drive.google.com/uc?id= followed by exactly
\* that identifier.
C9_FileIdIsSegmentAfterD ==
    (pc = "returned" /\ HasClosedIdSegment(EntryLink(1))) =>
        requested = << UC_PREFIX \o SegmentAfterD(EntryLink(1)) >>

\* the link /d/d/ : the identifier is the d between the slashes
C9_IdOfOverlappingMarks ==
    /\ pc = "returned"
    /\ EntryLink(1) = <<"/", "d", "/", "d", "/">>
    /\ requested = << UC_PREFIX \o <<"d">> >>

----------------------------------------------------------------------------
\* the run before this one, as it ended
PreviousRun == hist.prev[Len(hist.prev)]

\* this run got the same answer to its page request and the same answer to
\* each of its transfers as the run before it
SameOutcomes ==
    /\ response = PreviousRun.response
    /\ hist.transfers = PreviousRun.transfers

\* C7: a run that follows another on the same page with the same outcomes
\* leaves the files as the first left them: the PDFs and the CSV are written
\* over, the CSV has n rows and not 2n, and the logger holds the results of
\* this run only.
C7_SecondRunChangesNothing ==
    (run > 1 /\ pc \in {"done", "empty_done"} /\ SameOutcomes) =>
        /\ fs = PreviousRun.files
        /\ links = PreviousRun.links
        /\ pc = "done" =>
             /\ Len(results) = Len(links)
             /\ Len(CsvRows) = Len(links)
             /\ \A i \in 1..Len(links) : CsvRows[i] = <<EntryName(i), ExpectedStatus(i)>>

\* a second run over two entries, one of them downloaded both times
C7_SecondRunOverTwoEntries ==
    /\ run = 2
    /\ pc = "done"
    /\ SameOutcomes
    /\ Len(links) = 2
    /\ Successful # {}
    /\ Len(CsvRows) = 2

----------------------------------------------------------------------------
\* the state of the run, in the words of the design
Phase(p) ==
    CASE p = "main" -> "Idle"
      [] p \in {"parse", "check"} -> "Extracting"
      [] p = "empty_done" -> "Empty-Done"
      [] p \in {"setup", "resolve", "download", "record", "sleep"} -> "Dispatching"
      [] p \in {"flush", "report"} -> "Flushing"
      [] p = "done" -> "Done"
      [] OTHER -> "Crashed"

PhaseOrder ==
    { <<"Idle", "Extracting">>, <<"Extracting", "Extracting">>,
      <<"Extracting", "Empty-Done">>, <<"Extracting", "Dispatching">>,
      <<"Dispatching", "Dispatching">>, <<"Dispatching", "Flushing">>,
      <<"Flushing", "Flushing">>, <<"Flushing", "Done">> }

\* the steps of entry i: resolve, download when a strategy is found, record, sleep
StepsOfEntry(i) ==
    << <<i, "resolve">> >>
    \o (IF IsDriveLink(EntryLink(i)) THEN << <<i, "download">> >> ELSE <<>>)
    \o << <<i, "record">>, <<i, "sleep">> >>

RECURSIVE Schedule(_)
Schedule(n) == IF n = 0 THEN <<>> ELSE Schedule(n - 1) \o StepsOfEntry(n)

C10_Order ==
    /\ hist.fetches = IF pc = "main" THEN 0 ELSE 1
    /\ hist.flushes = IF pc \in {"report", "done"} THEN 1 ELSE 0
    /\ Len(hist.steps) <= Len(Schedule(Len(links)))
    /\ hist.steps = SubSeq(Schedule(Len(links)), 1, Len(hist.steps))
    /\ Phase(pc) \in {"Flushing", "Done"} =>
          (links # <<>> /\ hist.steps = Schedule(Len(links)) /\ Len(results) = Len(links))
    /\ Phase(pc) = "Dispatching" => links # <<>>
    /\ pc \in {"resolve", "download", "record", "sleep"} => k \in 1..Len(links)

C10_PhaseStep == <<Phase(pc), Phase(pc')>> \in PhaseOrder

C10_Ended == pc \in {"empty_done", "done"}

\* C10: a run goes Idle -> Extracting -> (Empty-Done | Dispatching -> Flushing
\* -> Done) and ends in Empty-Done or Done; the page is fetched once; the
\* entries are dispatched one at a time, in order, every step of an entry
\* before any step of the next, none twice; the logger is flushed once, after
\* all the entries are recorded.
C10_RunSequence == []C10_Order /\ [][C10_PhaseStep]_vars /\ <>C10_Ended

\* a finished run over a supported and an unsupported entry
C10_TwoEntriesDispatched ==
    /\ pc = "done"
    /\ Len(links) = 2
    /\ Len(hist.steps) = 7
    /\ hist.flushes = 1

----------------------------------------------------------------------------
\* C6 (as claimed): for every N >= 0, save_to_csv after N calls of update
\* writes a table under the two columns Nombre and Estado with exactly N data
\* rows, row i holding the name and the status of call i.
C6_SaveWritesOneRowPerUpdate ==
    pc = "saved" =>
       /\ CsvHeader = <<"Nombre", "Estado">>
       /\ Len(CsvRows) = Len(hist.steps)
       /\ \A i \in 1..Len(hist.steps) : CsvRows[i] = hist.steps[i]

\* the same with at least one call of update before save_to_csv: this holds
LoggerRowsAfterSomeUpdate ==
    (pc = "saved" /\ hist.steps # <<>>) =>
       /\ CsvHeader = <<"Nombre", "Estado">>
       /\ CsvRows = hist.steps

----------------------------------------------------------------------------
\* the <td> children of a row, in document order
CellsOf(doc, tr) ==
    SelectSeq(Positions(doc), LAMBDA i : doc[i].tag = "td" /\ doc[i].parent = tr)

\* the hyperlinks inside a cell, in document order
HyperlinksIn(doc, cell) ==
    SelectSeq(Positions(doc),
              LAMBDA i : doc[i].tag = "a" /\ doc[i].has_href /\ IsDescendant(doc, i, cell))

\* the entry of a row that has more than two <td> children and a hyperlink in
\* the third of them; nothing for another row
EntryOfRow(doc, tr) ==
    LET cells == CellsOf(doc, tr)
    IN  IF Len(cells) > 2 /\ HyperlinksIn(doc, cells[3]) # <<>>
        THEN << <<get_text(doc, cells[1]), doc[HyperlinksIn(doc, cells[3])[1]].href>> >>
        ELSE <<>>

RECURSIVE EntriesOfRows(_, _)
EntriesOfRows(doc, trs) ==
    IF trs = <<>> THEN <<>>
    ELSE EntryOfRow(doc, Head(trs)) \o EntriesOfRows(doc, Tail(trs))

AllRows(doc) == SelectSeq(Positions(doc), LAMBDA i : doc[i].tag = "tr")

\* a table lies inside a cell
HasNestedTable(doc) ==
    \E i \in 1..Len(doc) : doc[i].tag = "table" /\ TagOf(doc, doc[i].parent) = "td"

\* C8 (as claimed): get_pdf_links returns, in document order, exactly one entry
\* per <tr> that has more than two <td> children and a hyperlink in the third
\* of them, with the text of the first cell and the target of that hyperlink,
\* and nothing for any other row, also when a cell holds a nested table.
C8_OneEntryPerQualifyingRow ==
    pc = "extracted" => links = EntriesOfRows(page, AllRows(page))

\* the same for the pages in which no cell holds a table: this holds
RowsOfFlatTables ==
    (pc = "extracted" /\ ~HasNestedTable(page)) => links = EntriesOfRows(page, AllRows(page))

====
